---- MODULE Spec2Model ----
(***************************************************************************)
(* Delavan Lake fishing reports: the scraper (scraper.py), the store       *)
(* (database.py) and the LLM extractor (processor.py) as a state machine.  *)
(*                                                                         *)
(* Strings the code inspects character by character (dates, the text that  *)
(* is fingerprinted) are sequences of one-character strings.  Python's     *)
(* None is the empty tuple and a present value v is the 1-tuple <<v>>, so  *)
(* that 0, "" and None stay three different values, as they are for        *)
(* Python's truthiness tests.                                              *)
(***************************************************************************)
EXTENDS Integers, Sequences, FiniteSets, TLC

VARIABLES raw_reports, processed_reports, scr, run, api

vars == <<raw_reports, processed_reports, scr, run, api>>

(***************************************************************************)
(* Bounds of the model.                                                    *)
(***************************************************************************)
\* posts (after parsing) a listing page holds at most
MaxPagePosts == 2
\* listing pages of the site that can hold posts; later pages are empty
MaxSitePages == 2
\* rows of raw_reports a store holds when the extractor starts
MaxRaw == 2
\* the error counter of a run is kept exact up to this value
ErrCap == 2

(***************************************************************************)
(* Program constants.                                                      *)
(***************************************************************************)
\* scraper.py:27  content[:100]
FingerprintChars == 100
\* scraper.py:214  records_per_page = 50
records_per_page == 50
\* scraper.py:247  if consecutive_empty >= 3
EmptyPagesStop == 3
\* processor.py:61  stop_after_attempt(3)
MaxAttempts == 3
\* processor.py:126  workers: int = 10
DefaultWorkers == 10

(***************************************************************************)
(* Python values.                                                          *)
(***************************************************************************)
None == <<>>

Some(v) == <<v>>

Min(a, b) == IF a <= b THEN a ELSE b

\* truthiness of an optional int: None and 0 are falsy
TruthyInt(o) == o # None /\ o[1] # 0

\* truthiness of an optional str (a TLA+ string): None and "" are falsy
TruthyStr(o) == o # None /\ o[1] # ""

\* truthiness of an optional str held as a sequence of characters
TruthySeq(o) == o # None /\ o[1] # <<>>

\* a or b, for optional character strings
OrSeq(a, b) == IF TruthySeq(a) THEN a ELSE b

\* s[:n]
Prefix(s, n) == SubSeq(s, 1, Min(n, Len(s)))

\* str(x) inside an f-string: None prints as the four characters None
FormatOpt(o) == IF o = None THEN <<"N", "o", "n", "e">> ELSE o[1]

(***************************************************************************)
(* scraper.py: the fingerprint.  hashlib.md5 is taken as injective: the    *)
(* digest is the tagged text it was computed from.                         *)
(***************************************************************************)
md5(text) == <<"md5", text>>

generate_source_id(username, date_posted, content) ==
    md5(username \o <<":">> \o FormatOpt(date_posted) \o <<":">>
        \o Prefix(content, FingerprintChars))

(***************************************************************************)
(* The posts the site may show, as scrape_page returns them (parse_report  *)
(* has kept only posts with a date element and a body of 10 characters or  *)
(* more).  PostA2 is PostA edited after its first 100 characters.          *)
(***************************************************************************)
Pad100 == [i \in 1..100 |-> "x"]

IsoMarch == <<"2","0","2","4","-","0","3","-","0","1","T","1","4",":","1","5",":","0","0">>

RawDate == <<"Y","e","s","t","e","r","d","a","y">>

NameBob == <<"B","o","b">>

NameAl == <<"A","l">>

ShortBody == <<"N","o"," ","b","i","t","e","s"," ","t","o","d","a","y">>

MkPost(username, date_posted, raw_content, weather_badge, image_urls) ==
    [username |-> username, date_posted |-> date_posted,
     raw_content |-> raw_content, weather_badge |-> weather_badge,
     image_urls |-> image_urls,
     source_id |-> generate_source_id(username, date_posted, raw_content)]

PostA == MkPost(NameBob, Some(IsoMarch), Pad100 \o <<"1">>, Some("Sunny 40"), None)

PostA2 == MkPost(NameBob, Some(IsoMarch), Pad100 \o <<"2">>, Some("Sunny 40"), None)

PostB == MkPost(NameAl, Some(RawDate), ShortBody, None, Some("upload/1.jpg"))

PostC == MkPost(NameAl, None, ShortBody, Some("Snow 20"), None)

Posts == {PostA, PostA2, PostB, PostC}

\* the lists of posts one page fetch can return
PageLists == UNION {[1..n -> Posts] : n \in 0..MaxPagePosts}

(***************************************************************************)
(* api.py: the request the API is serving, or served last.  params holds   *)
(* the parameters of every endpoint, None where the request has none.      *)
(***************************************************************************)
NoParams ==
    [month |-> None, season |-> None, species |-> None, location |-> None,
     weather |-> None, min_depth |-> None, max_depth |-> None, limit |-> None,
     offset |-> None]

ApiIdle ==
    [pc |-> "idle", endpoint |-> "none", params |-> NoParams, status |-> 0,
     body |-> <<>>, raw_count |-> 0, processed_count |-> 0]

(***************************************************************************)
(* database.py                                                             *)
(***************************************************************************)
\* raw_reports.source_id without its UNIQUE declaration
RawConflict_m1(table, source_id) == FALSE

\* raw_reports.source_id is UNIQUE: the INSERT raises IntegrityError
RawConflict(table, source_id) == \E i \in 1..Len(table) : table[i].source_id = source_id

\* the row INSERT INTO raw_reports adds; id is AUTOINCREMENT and rows are never deleted
RawRow(table, post) ==
    [id |-> Len(table) + 1,
     source_id |-> post.source_id,
     date_posted |-> post.date_posted,
     username |-> post.username,
     raw_content |-> post.raw_content,
     weather_badge |-> post.weather_badge,
     location_tag |-> None,
     image_urls |-> post.image_urls]

\* insert_raw_report: the table afterwards
RawAfterInsert(table, post) ==
    IF RawConflict(table, post.source_id) THEN table ELSE Append(table, RawRow(table, post))

\* insert_raw_report: the value returned (cursor.lastrowid, or None if duplicate)
RawInsertResult(table, post) ==
    IF RawConflict(table, post.source_id) THEN None ELSE Some(Len(table) + 1)

(***************************************************************************)
(* scraper.py: scrape_all_reports, one scraper process.                    *)
(***************************************************************************)
\* float("inf"), the total count when the first page gave no hint
Inf == -1

\* the total-count hints "Displaying X to Y of Z posts" can give (0: no hint found)
Hints == {0, 51, 120}

\* the values of --pages
MaxPagesInputs == {None, Some(0), Some(1), Some(3)}

\* what the login requests of create_session can do
LoginOutcomes == {"ok", "rejected", "http_error", "network_error", "bad_body"}

ScrIdle ==
    [pc |-> "idle", max_pages |-> None, session |-> "none",
     page |-> 1, start_row |-> 1, total_count |-> Inf, reports |-> <<>>, idx |-> 1,
     consecutive_empty |-> 0, total_scraped |-> 0, total_inserted |-> 0,
     result |-> None]

\* create_session: the session it returns ("anonymous" or "authenticated"), or
\* "raised" where an exception of the login requests leaves it: session.get and
\* session.post on a network failure, raise_for_status on an HTTP error status,
\* resp.json() on an unreadable body
create_session(authenticate, configured, outcome) ==
    IF ~authenticate \/ ~configured THEN "anonymous"
    ELSE IF outcome \in {"http_error", "network_error", "bad_body"} THEN "raised"
    ELSE IF outcome = "ok" THEN "authenticated"
    ELSE "anonymous"

\* scrape_all_reports is called: init_database() leaves existing tables as they
\* are, then the session is created; no exception is caught here
ScrapeStart(max_pages, authenticate, configured, outcome) ==
    /\ scr.pc \in {"idle", "done", "crashed"}
    /\ LET session == create_session(authenticate, configured, outcome)
       IN scr' = [ScrIdle EXCEPT !.pc = IF session = "raised" THEN "crashed" ELSE "first",
                                 !.max_pages = max_pages,
                                 !.session = session]
    /\ UNCHANGED <<raw_reports, processed_reports, run, api>>

\* the first scrape_page call, before the loop
FirstFetch(ok, reports, hint) ==
    /\ scr.pc = "first"
    /\ scr' = IF ~ok THEN [scr EXCEPT !.pc = "crashed"]
              ELSE [scr EXCEPT !.pc = "loop", !.reports = reports,
                               !.total_count = IF hint = 0 THEN Inf ELSE hint]
    /\ UNCHANGED <<raw_reports, processed_reports, run, api>>

\* the pages after page 1 are fetched inside the loop
PageOf(fetched) == IF scr.page > 1 THEN fetched ELSE scr.reports

\* one pass of the while loop up to the for loop over the page's reports
ScrapeLoop(ok, fetched) ==
    /\ scr.pc = "loop"
    /\ scr' =
         IF TruthyInt(scr.max_pages) /\ scr.page > scr.max_pages[1]
            THEN [scr EXCEPT !.pc = "done"]
         ELSE IF scr.page > 1 /\ ~ok
            THEN [scr EXCEPT !.pc = "crashed"]
         ELSE IF PageOf(fetched) = <<>>
            THEN IF scr.consecutive_empty + 1 >= EmptyPagesStop
                    THEN [scr EXCEPT !.pc = "done", !.reports = <<>>,
                                     !.consecutive_empty = @ + 1]
                    ELSE [scr EXCEPT !.reports = <<>>,
                                     !.consecutive_empty = @ + 1,
                                     !.start_row = @ + records_per_page,
                                     !.page = @ + 1]
         ELSE [scr EXCEPT !.pc = "insert", !.reports = PageOf(fetched), !.idx = 1,
                          !.consecutive_empty = 0]
    /\ UNCHANGED <<raw_reports, processed_reports, run, api>>

\* float("inf") compared as the number that stands for it
PastTotal_m1(start_row, total_count) == start_row > total_count

\* start_row > total_count
PastTotal(start_row, total_count) == total_count # Inf /\ start_row > total_count

\* one pass of "for report in reports", and what follows the last one (reports is
\* not read again before it is assigned: it is cleared there)
ScrapeInsert ==
    /\ scr.pc = "insert"
    /\ LET post == scr.reports[scr.idx]
           result == RawInsertResult(raw_reports, post)
           last == scr.idx = Len(scr.reports)
           counted == [scr EXCEPT !.total_scraped = @ + 1,
                                  !.total_inserted = IF TruthyInt(result) THEN @ + 1 ELSE @,
                                  !.idx = @ + 1, !.result = result]
       IN /\ raw_reports' = RawAfterInsert(raw_reports, post)
          /\ scr' = IF ~last THEN counted
                    ELSE [counted EXCEPT
                            !.reports = <<>>, !.idx = 1,
                            !.start_row = @ + records_per_page,
                            !.page = @ + 1,
                            !.pc = IF PastTotal(scr.start_row + records_per_page,
                                                scr.total_count)
                                      THEN "done" ELSE "loop"]
    /\ UNCHANGED <<processed_reports, run, api>>

\* the pages the site can return at the scraper's current position
SitePages == IF scr.page > MaxSitePages THEN {<<>>} ELSE PageLists

NextScrape ==
    \/ \E mp \in MaxPagesInputs, auth \in BOOLEAN :
          \E configured \in IF auth THEN BOOLEAN ELSE {FALSE} :
             \E outcome \in IF configured THEN LoginOutcomes ELSE {"ok"} :
                ScrapeStart(mp, auth, configured, outcome)
    \/ \E ok \in BOOLEAN, reports \in PageLists, hint \in Hints :
          FirstFetch(ok, reports, hint)
    \/ \E ok \in BOOLEAN, fetched \in SitePages : ScrapeLoop(ok, fetched)
    \/ ScrapeInsert

InitScrape ==
    /\ raw_reports = <<>>
    /\ processed_reports = <<>>
    /\ scr = ScrIdle
    /\ run = <<>>
    /\ api = ApiIdle

ScrapeSpec == InitScrape /\ [][NextScrape]_vars

(***************************************************************************)
(* C1                                                                      *)
(***************************************************************************)
\* what the fingerprint is computed from
FingerprintInputs(r) ==
    <<r.username, r.date_posted, Prefix(r.raw_content, FingerprintChars)>>

\* the post the scraper inserts in its next step
NextPost == scr.reports[scr.idx]

\* raw_reports already holds a row with the fingerprint of NextPost
NextPostStored ==
    \E i \in 1..Len(raw_reports) :
       raw_reports[i].source_id =
          generate_source_id(NextPost.username, NextPost.date_posted, NextPost.raw_content)

RawUnique ==
    \A i, j \in 1..Len(raw_reports) :
       i # j => /\ raw_reports[i].source_id # raw_reports[j].source_id
                /\ FingerprintInputs(raw_reports[i]) # FingerprintInputs(raw_reports[j])

InsertRawStep ==
    scr.pc = "insert" /\ scr' # scr =>
       IF NextPostStored
          THEN /\ raw_reports' = raw_reports
               /\ scr'.result = None
          ELSE /\ raw_reports' = Append(raw_reports, raw_reports'[Len(raw_reports')])
               /\ raw_reports'[Len(raw_reports')].source_id = NextPost.source_id
               /\ FingerprintInputs(raw_reports'[Len(raw_reports')]) = FingerprintInputs(NextPost)
               /\ scr'.result = Some(raw_reports'[Len(raw_reports')].id)
               /\ scr'.result = Some(Len(raw_reports'))

\* C1: no two rows of raw_reports share a source_id (nor the username, date and first
\* 100 characters of the body it is computed from); inserting a post whose source_id
\* is stored leaves raw_reports unchanged and returns None, inserting a post with a
\* new source_id adds exactly one row and returns its id.
C1_SourceIdUnique == []RawUnique /\ [][InsertRawStep]_vars

\* the edited post PostA2 was scraped after PostA was stored, and was skipped
C1_Witness ==
    /\ scr.pc = "insert"
    /\ scr.idx = 2
    /\ scr.reports[1] = PostA2
    /\ scr.result = None
    /\ Len(raw_reports) = 2
    /\ raw_reports[2].raw_content = PostA.raw_content

(***************************************************************************)
(* processor.py: the pure helpers.                                         *)
(***************************************************************************)
Digits == <<"0", "1", "2", "3", "4", "5", "6", "7", "8", "9">>

IsDigit(c) == \E d \in 1..10 : Digits[d] = c

DigitVal(c) == (CHOOSE d \in 1..10 : Digits[d] = c) - 1

\* the number written at positions i and i+1 of s
TwoDigits(s, i) == 10 * DigitVal(s[i]) + DigitVal(s[i + 1])

IsLeap(y) == (y % 4 = 0 /\ y % 100 # 0) \/ y % 400 = 0

DaysIn(y, m) ==
    IF m = 2 THEN (IF IsLeap(y) THEN 29 ELSE 28)
    ELSE IF m \in {4, 6, 9, 11} THEN 30 ELSE 31

\* datetime.fromisoformat accepts s: YYYY-MM-DD, optionally followed by one
\* separator character and HH, HH:MM or HH:MM:SS
IsoWellFormed(s) ==
    /\ Len(s) \in {10, 13, 16, 19}
    /\ \A i \in {1, 2, 3, 4, 6, 7, 9, 10} : IsDigit(s[i])
    /\ s[5] = "-" /\ s[8] = "-"
    /\ Len(s) >= 13 => IsDigit(s[12]) /\ IsDigit(s[13])
    /\ Len(s) >= 16 => s[14] = ":" /\ IsDigit(s[15]) /\ IsDigit(s[16])
    /\ Len(s) >= 19 => s[17] = ":" /\ IsDigit(s[18]) /\ IsDigit(s[19])

IsoInRange(s) ==
    LET y == 100 * TwoDigits(s, 1) + TwoDigits(s, 3)
        m == TwoDigits(s, 6)
        d == TwoDigits(s, 9)
    IN /\ y >= 1 /\ m \in 1..12 /\ d \in 1..DaysIn(y, m)
       /\ Len(s) >= 13 => TwoDigits(s, 12) <= 23
       /\ Len(s) >= 16 => TwoDigits(s, 15) <= 59
       /\ Len(s) >= 19 => TwoDigits(s, 18) <= 59

\* datetime.fromisoformat(s).month, or None where it raises ValueError
FromIsoMonth(s) ==
    IF IsoWellFormed(s) /\ IsoInRange(s) THEN Some(TwoDigits(s, 6)) ELSE None

\* get_season_from_month with 12 missing from the first list: December falls through
\* to the else branch
get_season_from_month_m1(month) ==
    IF month \in {1, 2} THEN "winter"
    ELSE IF month \in {3, 4, 5} THEN "spring"
    ELSE IF month \in {6, 7, 8} THEN "summer"
    ELSE "fall"

get_season_from_month(month) ==
    IF month \in {12, 1, 2} THEN "winter"
    ELSE IF month \in {3, 4, 5} THEN "spring"
    ELSE IF month \in {6, 7, 8} THEN "summer"
    ELSE "fall"

(***************************************************************************)
(* The extraction service.  A call raises, or answers with a text: a body  *)
(* (a JSON object, or text that is no JSON) possibly inside a code fence.  *)
(* Of the object only the keys the extractor computes with are kept:       *)
(* month, season, date_posted, and those the search of the API filters on; *)
(* nokeys marks the object {}.                                             *)
(***************************************************************************)
IsoJuly == <<"2","0","2","4","-","0","7","-","0","4">>

SvcMonths == {None, Some(0), Some(7)}

SvcSeasons == {None, Some(""), Some("winter")}

\* an object that carries a date of its own and neither month nor season
DatedObject ==
    [nokeys |-> FALSE, month |-> None, season |-> None, date_posted |-> Some(IsoJuly),
     water_depth_feet |-> None, species_caught |-> None, species_targeted |-> None,
     location |-> None, weather_conditions |-> None]

EmptyObject ==
    [nokeys |-> TRUE, month |-> None, season |-> None, date_posted |-> None,
     water_depth_feet |-> None, species_caught |-> None, species_targeted |-> None,
     location |-> None, weather_conditions |-> None]

Objects ==
    [nokeys : {FALSE}, month : SvcMonths, season : SvcSeasons, date_posted : {None},
     water_depth_feet : {None}, species_caught : {None}, species_targeted : {None},
     location : {None}, weather_conditions : {None}]
       \cup {DatedObject}

\* the opening of the answer: no fence, ```, ```json, ```JSON
Fences == {"none", "plain", "json", "JSON"}

Bodies == {"object", "empty_object", "garbage"}

\* the text json.loads is given: the fence is split off, and a leading "json" cut
StripFence(fence, body) == IF fence = "JSON" THEN "garbage" ELSE body

\* extract_fishing_data, one attempt that did not raise: "data", "empty" ({}) or
\* "null" (json.JSONDecodeError, None is returned)
ParseAnswer(fence, body) ==
    LET text == StripFence(fence, body)
    IN IF text = "object" THEN "data"
       ELSE IF text = "empty_object" THEN "empty"
       ELSE "null"

\* _process_single_report: whether the tuple it returns carries an error message
WorkerError(ret) == ret # "data"

(***************************************************************************)
(* database.py: processed_reports                                          *)
(***************************************************************************)
\* processed_reports.raw_report_id is UNIQUE
ProcessedConflict(table, raw_report_id) ==
    \E i \in 1..Len(table) : table[i].raw_report_id = raw_report_id

\* INSERT OR REPLACE in place of the INSERT the UNIQUE column rejects
ProcessedAfterInsert_m1(table, raw_report_id, date_posted, month, season, water_depth_feet, species_caught, species_targeted, location, weather_conditions) ==
    LET row(id) == [id |-> id, raw_report_id |-> raw_report_id,
                    date_posted |-> date_posted, month |-> month, season |-> season,
                    water_depth_feet |-> water_depth_feet,
                    species_caught |-> species_caught,
                    species_targeted |-> species_targeted, location |-> location,
                    weather_conditions |-> weather_conditions]
    IN IF \E i \in 1..Len(table) : table[i].raw_report_id = raw_report_id
          THEN [i \in 1..Len(table) |->
                  IF table[i].raw_report_id = raw_report_id THEN row(table[i].id)
                  ELSE table[i]]
          ELSE Append(table, row(Len(table) + 1))

\* insert_processed_report: the table afterwards
ProcessedAfterInsert(table, raw_report_id, date_posted, month, season, water_depth_feet, species_caught, species_targeted, location, weather_conditions) ==
    IF ProcessedConflict(table, raw_report_id) THEN table
    ELSE Append(table, [id |-> Len(table) + 1, raw_report_id |-> raw_report_id,
                        date_posted |-> date_posted, month |-> month,
                        season |-> season,
                        water_depth_feet |-> water_depth_feet,
                        species_caught |-> species_caught,
                        species_targeted |-> species_targeted,
                        location |-> location,
                        weather_conditions |-> weather_conditions])

\* insert_processed_report: the value returned
ProcessedInsertResult(table, raw_report_id) ==
    IF ProcessedConflict(table, raw_report_id) THEN None ELSE Some(Len(table) + 1)

\* the SELECT without its "WHERE p.id IS NULL"
get_unprocessed_reports_m1(limit) ==
    Prefix([i \in 1..Len(raw_reports) |-> raw_reports[i].id], limit)

\* get_unprocessed_reports: the ids of the rows selected, in ORDER BY r.id
\* (rows of raw_reports never change, so a batch is kept as its ids)
get_unprocessed_reports(limit) ==
    LET ids == SelectSeq([i \in 1..Len(raw_reports) |-> raw_reports[i].id],
                         LAMBDA id : ~ProcessedConflict(processed_reports, id))
    IN Prefix(ids, limit)

(***************************************************************************)
(* processor.py: process_reports.  run[p] is one run of it: its arguments, *)
(* its locals and the futures of its current batch.                        *)
(***************************************************************************)
BatchSizes == {1, 2}

MaxReportsInputs == {None, Some(0), Some(1), Some(2)}

WorkersInputs == {1, DefaultWorkers}

SampleSizes == {0, 1, 2}

RunIdle ==
    [pc |-> "idle", batch_size |-> 0, max_reports |-> None, workers |-> 0,
     total_processed |-> 0, total_errors |-> 0, reports |-> <<>>, fut |-> <<>>,
     report_id |-> None, extracted |-> None, error |-> FALSE, result |-> None]

\* a future: st is "queued", "running" (a pool thread is in extract_fishing_data),
\* "done" or "taken" (the main thread has had its result); attempt counts the calls
\* of the service made for it; ret is how the latest attempt ended: "raised", or
\* what it returned ("data", "empty" for {}, "null" for None)
QueuedFuture == [st |-> "queued", attempt |-> 0, ret |-> "none"]

\* the retry counter is gone once extract_fishing_data has returned and the
\* result was taken
TakenFuture(f) == [st |-> "taken", attempt |-> 0, ret |-> f.ret]

\* process_reports is called
StartRun(p, batch_size, max_reports, workers) ==
    /\ run[p].pc \in {"idle", "done"}
    /\ run' = [run EXCEPT ![p] = [RunIdle EXCEPT !.pc = "loop",
                                    !.batch_size = batch_size,
                                    !.max_reports = max_reports,
                                    !.workers = workers]]
    /\ UNCHANGED <<raw_reports, processed_reports, scr, api>>

\* process_sample(num_reports)
StartSample(p, num_reports) ==
    /\ run[p].pc \in {"idle", "done"}
    /\ run' = [run EXCEPT ![p] = [RunIdle EXCEPT !.pc = "loop",
                                    !.batch_size = num_reports,
                                    !.max_reports = Some(num_reports),
                                    !.workers = DefaultWorkers]]
    /\ UNCHANGED <<raw_reports, processed_reports, scr, api>>

\* "if max_reports and total_processed >= max_reports"
ReachedMax(r) == TruthyInt(r.max_reports) /\ r.total_processed >= r.max_reports[1]

\* "min(batch_size, max_reports - total_processed) if max_reports else batch_size"
BatchLimit(r) ==
    IF TruthyInt(r.max_reports)
       THEN Min(r.batch_size, r.max_reports[1] - r.total_processed)
       ELSE r.batch_size

\* the locals of the for loop are dead at the head of the while loop (each is
\* assigned before it is read again): they are cleared there.  When the function
\* returns its frame is gone; the two totals it printed are kept.
LoopLocalsDead(r) ==
    [r EXCEPT !.reports = <<>>, !.fut = <<>>, !.report_id = None, !.extracted = None,
              !.error = FALSE, !.result = None]

\* the head of the while loop: stop, or select a batch and submit it to the pool
LoopHead(p) ==
    /\ run[p].pc = "loop"
    /\ LET r == run[p]
           reports == get_unprocessed_reports(BatchLimit(r))
       IN run' = [run EXCEPT ![p] =
                    IF ReachedMax(r) \/ reports = <<>>
                       THEN [RunIdle EXCEPT !.pc = "done",
                                            !.total_processed = r.total_processed,
                                            !.total_errors = r.total_errors]
                       ELSE [LoopLocalsDead(r) EXCEPT
                               !.pc = "batch", !.reports = reports,
                               !.fut = [i \in 1..Len(reports) |-> QueuedFuture]]]
    /\ UNCHANGED <<raw_reports, processed_reports, scr, api>>

\* the futures of a batch a pool thread is working on
Running(r) == {i \in 1..Len(r.fut) : r.fut[i].st = "running"}

\* a decorator that does not retry: the first exception is the outcome
AfterAttempt_m1(f, raised, fence, body) ==
    [st |-> "done", attempt |-> f.attempt + 1,
     ret |-> IF raised THEN "raised" ELSE ParseAnswer(fence, body)]

\* json.JSONDecodeError raised again, and so retried like any other exception
AfterAttempt_m2(f, raised, fence, body) ==
    LET ret == IF raised THEN "raised" ELSE ParseAnswer(fence, body)
    IN IF ret \in {"raised", "null"} /\ f.attempt + 1 < MaxAttempts
          THEN [st |-> "running", attempt |-> f.attempt + 1, ret |-> ret]
          ELSE [st |-> "done", attempt |-> f.attempt + 1, ret |-> ret]

\* the result of one attempt of extract_fishing_data under the retry decorator
AfterAttempt(f, raised, fence, body) ==
    IF raised
       THEN IF f.attempt + 1 < MaxAttempts
               THEN [st |-> "running", attempt |-> f.attempt + 1, ret |-> "raised"]
               ELSE [st |-> "done", attempt |-> f.attempt + 1, ret |-> "raised"]
       ELSE [st |-> "done", attempt |-> f.attempt + 1, ret |-> ParseAnswer(fence, body)]

\* a pool thread makes one call of the service for the report at position i
CallService(p, i, raised, fence, body) ==
    /\ run[p].pc = "batch"
    /\ i \in 1..Len(run[p].fut)
    /\ \/ run[p].fut[i].st = "running"
       \/ /\ run[p].fut[i].st = "queued"
          /\ Cardinality(Running(run[p])) < run[p].workers
    /\ run' = [run EXCEPT ![p].fut[i] = AfterAttempt(run[p].fut[i], raised, fence, body)]
    /\ UNCHANGED <<raw_reports, processed_reports, scr, api>>

\* the date wins over the month of the service
MonthFor_m1(extracted, report) ==
    IF TruthySeq(report.date_posted) /\ FromIsoMonth(report.date_posted[1]) # None
       THEN FromIsoMonth(report.date_posted[1])
       ELSE extracted.month

\* "Ensure we have a valid month"
MonthFor(extracted, report) ==
    IF ~TruthyInt(extracted.month) /\ TruthySeq(report.date_posted)
          /\ FromIsoMonth(report.date_posted[1]) # None
       THEN FromIsoMonth(report.date_posted[1])
       ELSE extracted.month

\* "Ensure we have a season"
SeasonFor(extracted, month) ==
    IF ~TruthyStr(extracted.season) /\ TruthyInt(month)
       THEN Some(get_season_from_month(month[1]))
       ELSE extracted.season

\* the body of the for loop for a report whose extraction gave an object, from
\* "Ensure we have a valid month" to insert_processed_report: the table afterwards
PersistExtracted(table, report, extracted) ==
    LET month == MonthFor(extracted, report)
        season == SeasonFor(extracted, month)
    IN ProcessedAfterInsert(table, report.id,
                            OrSeq(extracted.date_posted, report.date_posted),
                            month, season, extracted.water_depth_feet,
                            extracted.species_caught, extracted.species_targeted,
                            extracted.location, extracted.weather_conditions)

\* total_errors += 1 (the model keeps the counter exact up to ErrCap)
CountError(n) == Min(n + 1, ErrCap)

\* every future of the batch but the one at position i has been taken
LastOfBatch(r, i) == \A j \in 1..Len(r.fut) : j # i => r.fut[j].st = "taken"

\* "break" in place of "continue"
NextInLoop_m1(r, i) ==
    IF WorkerError(r.fut[i].ret) \/ LastOfBatch(r, i) THEN "loop" ELSE "batch"

\* where the main thread is after the body of the for loop ran for the future at
\* position i: in the for loop while a future is left, else at the head of the while
NextInLoop(r, i) == IF LastOfBatch(r, i) THEN "loop" ELSE "batch"

\* the main thread takes a completed future from as_completed: the body of the
\* for loop.  extracted is the object the future carries when it carries one.
Take(p, i, extracted) ==
    /\ run[p].pc = "batch"
    /\ i \in 1..Len(run[p].fut)
    /\ run[p].fut[i].st = "done"
    /\ LET r == run[p]
           report == raw_reports[r.reports[i]]
           result == ProcessedInsertResult(processed_reports, report.id)
           next == [r EXCEPT !.fut[i] = TakenFuture(r.fut[i]),
                             !.pc = NextInLoop(r, i),
                             !.report_id = Some(report.id)]
       IN IF WorkerError(r.fut[i].ret)
             THEN /\ run' = [run EXCEPT ![p] =
                               [next EXCEPT !.extracted = None, !.error = TRUE,
                                            !.total_errors = CountError(@)]]
                  /\ UNCHANGED processed_reports
             ELSE /\ processed_reports' =
                       PersistExtracted(processed_reports, report, extracted)
                  /\ run' = [run EXCEPT ![p] =
                               [next EXCEPT !.extracted = Some(extracted), !.error = FALSE,
                                            !.result = result,
                                            !.total_processed =
                                                IF TruthyInt(result) THEN @ + 1 ELSE @]]
    /\ UNCHANGED <<raw_reports, scr, api>>

\* the objects a completed future can carry
Carried(p, i) ==
    IF i \in 1..Len(run[p].fut) /\ run[p].fut[i].ret = "data" THEN Objects ELSE {EmptyObject}

NextProc ==
    \/ \E p \in DOMAIN run, bs \in BatchSizes, mx \in MaxReportsInputs, w \in WorkersInputs :
          StartRun(p, bs, mx, w)
    \/ \E p \in DOMAIN run, n \in SampleSizes : StartSample(p, n)
    \/ \E p \in DOMAIN run : LoopHead(p)
    \/ \E p \in DOMAIN run, i \in 1..MaxRaw + 2, raised \in BOOLEAN,
          fence \in Fences, body \in Bodies : CallService(p, i, raised, fence, body)
    \/ \E p \in DOMAIN run, i \in 1..MaxRaw + 2 :
          \E extracted \in Carried(p, i) : Take(p, i, extracted)

\* the stores the scraper can leave: every list of at most MaxRaw posts, inserted in turn
RECURSIVE InsertAll(_, _)
InsertAll(table, posts) ==
    IF posts = <<>> THEN table
    ELSE InsertAll(RawAfterInsert(table, Head(posts)), Tail(posts))

RawTables == {InsertAll(<<>>, posts) : posts \in UNION {[1..n -> Posts] : n \in 0..MaxRaw}}

Init ==
    /\ raw_reports \in RawTables
    /\ processed_reports = <<>>
    /\ scr = ScrIdle
    /\ run = [p \in {1} |-> RunIdle]
    /\ api = ApiIdle

Spec == Init /\ [][NextProc]_vars

\* the stores that hold one raw report
OneReportTables == {InsertAll(<<>>, <<post>>) : post \in Posts}

\* two runs of process_reports, started with batch size 2 and no max_reports,
\* against one store that holds one raw report
InitRace ==
    /\ raw_reports \in OneReportTables
    /\ processed_reports = <<>>
    /\ scr = ScrIdle
    /\ run = [p \in {1, 2} |-> RunIdle]
    /\ api = ApiIdle

NextRace ==
    \/ \E p \in DOMAIN run : StartRun(p, 2, None, DefaultWorkers)
    \/ \E p \in DOMAIN run : LoopHead(p)
    \/ \E p \in DOMAIN run, raised \in BOOLEAN, fence \in Fences, body \in Bodies :
          CallService(p, 1, raised, fence, body)
    \/ \E p \in DOMAIN run : \E extracted \in Carried(p, 1) : Take(p, 1, extracted)

RaceSpec == InitRace /\ [][NextRace]_vars

\* one run against a store that holds at most one raw report
InitFair ==
    /\ raw_reports \in OneReportTables \cup {<<>>}
    /\ processed_reports = <<>>
    /\ scr = ScrIdle
    /\ run = [p \in {1} |-> RunIdle]
    /\ api = ApiIdle

\* a run that has started keeps running: the main thread and the pool threads are
\* scheduled, and every call of the service returns or raises
Fairness ==
    \A p \in {1} :
       /\ WF_vars(LoopHead(p))
       /\ WF_vars(\E i \in 1..MaxRaw + 2, raised \in BOOLEAN, fence \in Fences,
                     body \in Bodies : CallService(p, i, raised, fence, body))
       /\ WF_vars(\E i \in 1..MaxRaw + 2 : \E extracted \in Carried(p, i) :
                     Take(p, i, extracted))

FairSpec == InitFair /\ [][NextProc]_vars /\ Fairness

(***************************************************************************)
(* Properties of process_reports                                           *)
(***************************************************************************)
ProcessedUnique ==
    \A i, j \in 1..Len(processed_reports) :
       i # j => processed_reports[i].raw_report_id # processed_reports[j].raw_report_id

\* the rows of processed_reports stay as they were written
ProcessedKept ==
    /\ Len(processed_reports') >= Len(processed_reports)
    /\ \A i \in 1..Len(processed_reports) : processed_reports'[i] = processed_reports[i]

\* the batch a run selects holds no report that has a processed row
NotReselected ==
    \A p \in DOMAIN run :
       run[p].pc = "loop" /\ run'[p].pc = "batch" =>
          \A i \in 1..Len(run'[p].reports) :
             ~ProcessedConflict(processed_reports, run'[p].reports[i])

AllProcessed ==
    \A i \in 1..Len(raw_reports) : ProcessedConflict(processed_reports, raw_reports[i].id)

\* a run that finds every raw report processed returns and writes nothing
RerunNoOp ==
    \A p \in DOMAIN run :
       AllProcessed /\ run[p].pc = "loop" /\ run'[p] # run[p] =>
          /\ run'[p].pc = "done"
          /\ run'[p].total_processed = run[p].total_processed
          /\ processed_reports' = processed_reports

\* C2: a raw report has at most one processed row; a run of process_reports never
\* selects a report that has one, a run that finds every report processed returns
\* without writing, and a processed row, once written, keeps its fields.
C2_AtMostOneProcessed ==
    []ProcessedUnique /\ [][ProcessedKept /\ NotReselected /\ RerunNoOp]_vars

\* a second run has returned, having processed nothing, from a store whose two raw
\* reports were both processed before it
C2_Witness ==
    /\ Len(raw_reports) = 2
    /\ Len(processed_reports) = 2
    /\ run[1].pc = "done"
    /\ run[1].total_processed = 0
    /\ run[1].total_errors = 0

\* run p takes the extraction of a report that a processed row exists for
SecondWriter(p) ==
    /\ run[p].pc = "batch"
    /\ run[p].fut[1].st = "done"
    /\ run[p].fut[1].ret = "data"
    /\ run'[p].fut[1].st = "taken"
    /\ ProcessedConflict(processed_reports, run[p].reports[1])

SecondWriterIgnored ==
    \A p \in DOMAIN run :
       SecondWriter(p) =>
          /\ processed_reports' = processed_reports
          /\ run'[p].result = None
          /\ run'[p].error = FALSE
          /\ run'[p].total_errors = run[p].total_errors
          /\ run'[p].total_processed = run[p].total_processed
          /\ run'[p].pc = "loop"

\* C3: when two runs both select and extract one raw report, one processed row for it
\* exists afterwards, the first writer's; the second writer's insert changes no row,
\* is not an error of its run, and is counted neither as processed nor as an error.
C3_SecondWriterIgnored ==
    []ProcessedUnique /\ [][ProcessedKept /\ SecondWriterIgnored]_vars

\* run 1 wrote the row; run 2 then took an extraction of the same report that would
\* have stored another season, and counted nothing
C3_Witness ==
    /\ Len(processed_reports) = 1
    /\ run[1].total_processed = 1
    /\ run[2].pc = "loop"
    /\ run[2].report_id = Some(processed_reports[1].raw_report_id)
    /\ run[2].extracted # None
    /\ run[2].extracted[1].season = Some("winter")
    /\ processed_reports[1].season # Some("winter")
    /\ run[2].result = None
    /\ run[2].total_processed = 0
    /\ run[2].total_errors = 0

\* C4: every run of process_reports that has started returns.
C4_Terminates == \A p \in {1} : (run[p].pc = "loop") ~> (run[p].pc = "done")

\* the positions of the batch of run p
Batch(p) == 1..Len(run[p].fut)

\* run p takes the future at position i on this step
Takes(p, i) ==
    /\ run[p].pc = "batch"
    /\ i \in Batch(p)
    /\ run[p].fut[i].st = "done"
    /\ run'[p].fut[i].st = "taken"

\* a pool thread calls the service for the future at position i on this step
Calls(p, i) ==
    /\ run[p].pc = "batch"
    /\ i \in Batch(p)
    /\ run[p].fut[i].st \in {"queued", "running"}
    /\ run'[p].fut[i] # run[p].fut[i]

\* the run leaves the for loop only when every future of the batch was taken
BatchRunsOut ==
    \A p \in DOMAIN run :
       run[p].pc # "batch" => \A i \in Batch(p) : run[p].fut[i].st = "taken"

\* of the futures taken, those that carried an object have a processed row, the
\* others have none
TakenPersisted ==
    \A p \in DOMAIN run : \A i \in Batch(p) :
       run[p].fut[i].st = "taken" =>
          (run[p].fut[i].ret = "data"
              <=> ProcessedConflict(processed_reports, run[p].reports[i]))

\* taking a failed extraction writes no row and leaves the other futures as they are
FailureSkipped ==
    \A p \in DOMAIN run : \A i \in Batch(p) :
       Takes(p, i) /\ run[p].fut[i].ret # "data" =>
          /\ processed_reports' = processed_reports
          /\ run'[p].error = TRUE
          /\ \A j \in Batch(p) : j # i => run'[p].fut[j] = run[p].fut[j]

\* C5: a failed extraction (retries exhausted, or an answer that is no JSON) does not
\* halt the batch: the for loop is left only after every future was taken, in whatever
\* order they complete; every report whose extraction returned an object has its
\* processed row, and a report whose extraction failed has none.
C5_FailureDoesNotHalt ==
    [](BatchRunsOut /\ TakenPersisted) /\ [][FailureSkipped]_vars

\* the first report of a batch of two failed after its retries and was taken first;
\* the second was persisted after it
C5_Witness ==
    /\ run[1].pc = "loop"
    /\ Len(run[1].fut) = 2
    /\ run[1].fut[1].ret = "raised"
    /\ run[1].fut[2].ret = "data"
    /\ run[1].report_id = Some(run[1].reports[2])
    /\ run[1].total_errors = 1
    /\ run[1].total_processed = 1
    /\ ProcessedConflict(processed_reports, run[1].reports[2])
    /\ ~ProcessedConflict(processed_reports, run[1].reports[1])

AttemptsBounded ==
    \A p \in DOMAIN run : \A i \in Batch(p) :
       LET f == run[p].fut[i]
       IN /\ f.attempt <= MaxAttempts
          /\ f.st = "running" => f.ret = "raised" /\ f.attempt \in 1..MaxAttempts - 1
          /\ f.st = "done" => f.attempt \in 1..MaxAttempts
          /\ f.st = "done" /\ f.ret = "raised" => f.attempt = MaxAttempts

\* a call is one attempt; after a call that raised another attempt is pending while
\* fewer than MaxAttempts were made; a call that returned an object ends the dispatch
\* with that object
CallIsOneAttempt ==
    \A p \in DOMAIN run : \A i \in Batch(p) :
       Calls(p, i) =>
          LET f == run[p].fut[i]
              g == run'[p].fut[i]
          IN /\ g.attempt = f.attempt + 1
             /\ g.ret = "raised" => (g.st = "running" <=> g.attempt < MaxAttempts)
             /\ g.ret \in {"data", "empty"} => g.st = "done"

\* a dispatch whose last attempt raised is one error of the run, and no row
ExhaustedIsOneError ==
    \A p \in DOMAIN run : \A i \in Batch(p) :
       Takes(p, i) /\ run[p].fut[i].ret = "raised" =>
          /\ run'[p].total_errors = Min(run[p].total_errors + 1, ErrCap)
          /\ run'[p].total_processed = run[p].total_processed
          /\ processed_reports' = processed_reports

\* a dispatch that ended with an object is taken without an error
ObjectIsTaken ==
    \A p \in DOMAIN run : \A i \in Batch(p) :
       Takes(p, i) /\ run[p].fut[i].ret = "data" =>
          /\ run'[p].error = FALSE
          /\ run'[p].extracted # None
          /\ run'[p].total_errors = run[p].total_errors

\* C6: for one dispatch of a report the service is called at most MaxAttempts = 3
\* times: a call that raised is followed by another attempt while fewer than 3 were
\* made, a call that succeeds at attempt 1, 2 or 3 ends the dispatch with the object
\* it returned, and a 3rd attempt that raised is counted as one error of the run.
C6_AtMostThreeCalls ==
    /\ []AttemptsBounded
    /\ [][CallIsOneAttempt /\ ExhaustedIsOneError /\ ObjectIsTaken]_vars

\* one report was counted as an error after its attempts ran out, another got its
\* object at the third attempt
C6_Witness ==
    /\ run[1].pc = "batch"
    /\ Len(run[1].fut) = 2
    /\ run[1].fut[1].st = "taken"
    /\ run[1].fut[1].ret = "raised"
    /\ run[1].total_errors = 1
    /\ run[1].fut[2].st = "done"
    /\ run[1].fut[2].ret = "data"
    /\ run[1].fut[2].attempt = MaxAttempts

\* an answer that json.loads rejected is never followed by another call
NoRetryAfterBadJson ==
    \A p \in DOMAIN run : \A i \in Batch(p) :
       run[p].fut[i].ret = "null" => run[p].fut[i].st \in {"done", "taken"}

\* the call that got the answer was the last of the dispatch
BadJsonEndsDispatch ==
    \A p \in DOMAIN run : \A i \in Batch(p) :
       Calls(p, i) /\ run'[p].fut[i].ret = "null" =>
          /\ run'[p].fut[i].st = "done"
          /\ run'[p].fut[i].attempt = run[p].fut[i].attempt + 1

BadJsonIsError ==
    \A p \in DOMAIN run : \A i \in Batch(p) :
       Takes(p, i) /\ run[p].fut[i].ret = "null" =>
          /\ run'[p].error = TRUE
          /\ run'[p].total_errors = Min(run[p].total_errors + 1, ErrCap)
          /\ processed_reports' = processed_reports

\* C7: an answer that does not parse as JSON once its fence is stripped ends the
\* dispatch at that call, whatever the number of attempts made, and the dispatch is
\* taken as an error of the run.
C7_BadJsonNotRetried ==
    []NoRetryAfterBadJson /\ [][BadJsonEndsDispatch /\ BadJsonIsError]_vars

\* one report was counted as an error for an answer that did not parse; the other
\* got such an answer at its first call and is not called again
C7_Witness ==
    /\ run[1].pc = "batch"
    /\ Len(run[1].fut) = 2
    /\ run[1].fut[1].st = "taken"
    /\ run[1].fut[1].ret = "null"
    /\ run[1].error = TRUE
    /\ run[1].total_errors = 1
    /\ run[1].fut[2].st = "done"
    /\ run[1].fut[2].ret = "null"
    /\ run[1].fut[2].attempt = 1

\* the reports of its current batch that run p has persisted
PersistedOfBatch(p) ==
    {i \in Batch(p) : run[p].fut[i].st = "taken" /\ run[p].fut[i].ret = "data"}

\* C8: when max_reports is given, the processed count of a run is at most
\* max_reports in every state, a batch holds at most
\* min(batch_size, max_reports - processed so far) reports, and no batch is under
\* way once the count has reached max_reports.
C8_MaxNeverExceeded ==
    \A p \in DOMAIN run :
       run[p].max_reports # None =>
          /\ run[p].total_processed <= run[p].max_reports[1]
          /\ run[p].pc = "batch" =>
                /\ run[p].total_processed < run[p].max_reports[1]
                /\ Len(run[p].reports) <=
                      Min(run[p].batch_size,
                          run[p].max_reports[1]
                             - (run[p].total_processed - Cardinality(PersistedOfBatch(p))))

\* run p has just written a processed row from the object in run[p].extracted
JustStored(p) == ~run[p].error /\ run[p].extracted # None /\ run[p].result # None

\* the row it wrote, and the raw report the row is of
StoredRow(p) == processed_reports[run[p].result[1]]

RawOf(p) == raw_reports[run[p].report_id[1]]

\* the month of the date of a raw report, None when it has no date or one that
\* datetime.fromisoformat rejects
DateMonth(report) ==
    IF report.date_posted = None THEN None ELSE FromIsoMonth(report.date_posted[1])

\* C9 as stated: the stored month is the month of the service whenever it gave one;
\* else the month of the date of the raw report, absent when that date is absent or
\* does not parse.
C9_MonthAsStated ==
    \A p \in DOMAIN run :
       JustStored(p) =>
          StoredRow(p).month = IF run[p].extracted[1].month # None
                                  THEN run[p].extracted[1].month
                                  ELSE DateMonth(RawOf(p))

\* C9: the stored month is the month of the service whenever it gave one other than
\* 0; when it gave none, or 0, the stored month is the month of the date of the raw
\* report if that date is there and parses, and else what the service gave (none, or 0).
C9_MonthStored ==
    \A p \in DOMAIN run :
       JustStored(p) =>
          LET given == run[p].extracted[1].month
          IN StoredRow(p).month = IF given \notin {None, Some(0)} THEN given
                                  ELSE IF DateMonth(RawOf(p)) # None THEN DateMonth(RawOf(p))
                                  ELSE given

\* the service gave month 0 for a report dated in March: the row has month 3
C9_Witness ==
    /\ JustStored(1)
    /\ run[1].extracted[1].month = Some(0)
    /\ RawOf(1).date_posted = Some(IsoMarch)
    /\ StoredRow(1).month = Some(3)

\* the grouping of the months into seasons
SeasonTable(m) ==
    IF m \in {12, 1, 2} THEN "winter"
    ELSE IF m \in {3, 4, 5} THEN "spring"
    ELSE IF m \in {6, 7, 8} THEN "summer"
    ELSE IF m \in {9, 10, 11} THEN "fall"
    ELSE "none"

SeasonIsTotal == \A m \in 1..12 : get_season_from_month(m) = SeasonTable(m)

\* C10 as stated: get_season_from_month is the grouping on 1..12; the stored season
\* is derived from the stored month exactly when the service gave no season and the
\* row has a month, and is else the season of the service.
C10_SeasonAsStated ==
    /\ SeasonIsTotal
    /\ \A p \in DOMAIN run :
          JustStored(p) =>
             StoredRow(p).season =
                IF run[p].extracted[1].season = None /\ StoredRow(p).month # None
                   THEN Some(SeasonTable(StoredRow(p).month[1]))
                   ELSE run[p].extracted[1].season

\* C10: get_season_from_month is the grouping on 1..12; the stored season is derived
\* from the stored month exactly when the service gave no season, or the empty
\* string, and the row has a month other than 0; it is else the season of the service.
C10_SeasonStored ==
    /\ SeasonIsTotal
    /\ \A p \in DOMAIN run :
          JustStored(p) =>
             StoredRow(p).season =
                IF /\ run[p].extracted[1].season \in {None, Some("")}
                   /\ StoredRow(p).month \notin {None, Some(0)}
                   THEN Some(SeasonTable(StoredRow(p).month[1]))
                   ELSE run[p].extracted[1].season

\* the service gave neither month nor season for a report dated in March: the row
\* has month 3 and season spring
C10_Witness ==
    /\ JustStored(1)
    /\ run[1].extracted[1].month = None
    /\ run[1].extracted[1].season = None
    /\ RawOf(1).date_posted = Some(IsoMarch)
    /\ StoredRow(1).month = Some(3)
    /\ StoredRow(1).season = Some("spring")

(***************************************************************************)
(* Properties of what the extractor stores, and of scrape_all_reports      *)
(***************************************************************************)
Seasons == {"winter", "spring", "summer", "fall"}

\* C11: every row of processed_reports has a month in 1..12 or none, and a season
\* among winter, spring, summer, fall or none, whatever the service answered.
C11_MonthSeasonInRange ==
    \A i \in 1..Len(processed_reports) :
       /\ processed_reports[i].month \in {None} \cup {Some(m) : m \in 1..12}
       /\ processed_reports[i].season \in {None} \cup {Some(x) : x \in Seasons}

\* C12: create_session returns a session for every outcome of the login requests:
\* no scrape ends in create_session.
C12_LoginFailureTolerated == scr.session # "raised"

\* the first page gave no total count
HintZero == scr.pc \in {"loop", "insert", "done"} /\ scr.total_count = Inf

\* the offset of a page is 1 advanced by the page size once per page before it
OffsetOfPage ==
    scr.pc \in {"loop", "insert", "done"} =>
       scr.start_row = 1 + (scr.page - 1) * records_per_page

StopsOnEmptyStreakOrCap ==
    HintZero /\ scr.pc = "done" =>
       \/ scr.consecutive_empty >= EmptyPagesStop
       \/ scr.max_pages \notin {None, Some(0)} /\ scr.page > scr.max_pages[1]

\* a page with posts resets the streak and is handed to the for loop; a page without
\* posts adds one to the streak and the next page is asked for
StreakStep ==
    HintZero /\ scr.pc = "loop" /\ scr' # scr =>
       /\ scr'.pc = "insert" => scr'.consecutive_empty = 0 /\ scr'.reports # <<>>
       /\ scr'.pc = "loop" =>
             /\ scr'.consecutive_empty = scr.consecutive_empty + 1
             /\ scr'.page = scr.page + 1

\* every post of a page is stored, and after the last one the next page is asked for
PagePersisted ==
    HintZero /\ scr.pc = "insert" /\ scr' # scr =>
       /\ \E i \in 1..Len(raw_reports') : raw_reports'[i].source_id = NextPost.source_id
       /\ IF scr.idx < Len(scr.reports)
             THEN scr'.pc = "insert" /\ scr'.idx = scr.idx + 1
             ELSE scr'.pc = "loop" /\ scr'.page = scr.page + 1

\* C13: with a total-count hint of 0 the scrape asks for the offsets 1, 1 + 50, ...,
\* stores every post of every page that has posts, and stops only after three pages
\* in a row without posts (a page with posts sets the streak back to 0) or at the
\* max_pages cap.
C13_NoHintPaging ==
    [](OffsetOfPage /\ StopsOnEmptyStreakOrCap) /\ [][StreakStep /\ PagePersisted]_vars

\* pages 3, 4 and 5 were empty, so page 2 had posts: the scrape stopped at the third
\* empty page in a row, with what it found stored
C13_Witness ==
    /\ HintZero
    /\ scr.pc = "done"
    /\ scr.max_pages = None
    /\ scr.consecutive_empty = EmptyPagesStop
    /\ scr.page = 5
    /\ scr.total_scraped >= 1
    /\ Len(raw_reports) >= 1

\* the offset of the page asked for last
LastOffset ==
    IF scr.pc = "loop" /\ scr.consecutive_empty >= 1
       THEN scr.start_row - records_per_page
       ELSE scr.start_row

C20_ParsedObjectPersisted ==
    \A p \in DOMAIN run : \A i \in Batch(p) :
       run[p].fut[i].st = "taken" /\ run[p].fut[i].ret \in {"data", "empty"} =>
          ProcessedConflict(processed_reports, run[p].reports[i])

(***************************************************************************)
(* One run of process_reports without max_reports on a store of two raw    *)
(* reports, against a service that fails for the report with id 1 on every *)
(* call (it raises, or answers with no usable object) and returns an       *)
(* object on every call for any other report.                              *)
(***************************************************************************)
FailsPermanently(id) == id = 1

CallFated(p, i, raised, fence, body) ==
    /\ CallService(p, i, raised, fence, body)
    /\ IF FailsPermanently(run[p].reports[i])
          THEN raised \/ ParseAnswer(fence, body) # "data"
          ELSE ~raised /\ ParseAnswer(fence, body) = "data"

TwoReportTables == {t \in RawTables : Len(t) = 2}

InitStarve ==
    /\ raw_reports \in TwoReportTables
    /\ processed_reports = <<>>
    /\ scr = ScrIdle
    /\ run = [p \in {1} |-> RunIdle]
    /\ api = ApiIdle

NextStarve ==
    \/ \E bs \in BatchSizes, w \in WorkersInputs : StartRun(1, bs, None, w)
    \/ LoopHead(1)
    \/ \E i \in 1..MaxRaw + 2, raised \in BOOLEAN, fence \in Fences, body \in Bodies :
          CallFated(1, i, raised, fence, body)
    \/ \E i \in 1..MaxRaw + 2 : \E extracted \in Carried(1, i) : Take(1, i, extracted)

FairnessStarve ==
    /\ WF_vars(LoopHead(1))
    /\ WF_vars(\E i \in 1..MaxRaw + 2, raised \in BOOLEAN, fence \in Fences,
                  body \in Bodies : CallFated(1, i, raised, fence, body))
    /\ WF_vars(\E i \in 1..MaxRaw + 2 : \E extracted \in Carried(1, i) :
                  Take(1, i, extracted))

StarveSpec == InitStarve /\ [][NextStarve]_vars /\ FairnessStarve

\* C19: in a run without max_reports every raw report whose extraction succeeds gets
\* its processed row in the end, whatever the batch size and whichever reports fail
\* for good.
C19_NoStarvation ==
    \A id \in 1..MaxRaw + 2 :
       (/\ run[1].pc = "loop"
        /\ id \in 1..Len(raw_reports)
        /\ ~FailsPermanently(id))
          ~> ProcessedConflict(processed_reports, id)

(***************************************************************************)
(* api.py and the queries of database.py it runs.  Text columns the        *)
(* queries match with LIKE are sequences of characters; the numbers of     *)
(* water_depth_feet are whole.                                             *)
(***************************************************************************)
Pike == <<"P", "i", "k", "e">>

pike == <<"p", "i", "k", "e">>

bass == <<"b", "a", "s", "s">>

Bay == <<"B", "a", "y">>

sunny == <<"s", "u", "n", "n", "y">>

\* objects of the service that fill the columns the API filters on
ObjPike ==
    [nokeys |-> FALSE, month |-> Some(7), season |-> None, date_posted |-> None,
     water_depth_feet |-> Some(10), species_caught |-> Some(Pike),
     species_targeted |-> None, location |-> Some(Bay),
     weather_conditions |-> Some(sunny)]

ObjBass ==
    [nokeys |-> FALSE, month |-> None, season |-> Some("winter"),
     date_posted |-> Some(IsoJuly), water_depth_feet |-> Some(0),
     species_caught |-> Some(bass), species_targeted |-> Some(pike),
     location |-> None, weather_conditions |-> None]

ObjNulls ==
    [nokeys |-> FALSE, month |-> None, season |-> None, date_posted |-> None,
     water_depth_feet |-> None, species_caught |-> None, species_targeted |-> None,
     location |-> None, weather_conditions |-> None]

ApiObjects == {ObjPike, ObjBass, ObjNulls}

\* the characters of the dates and names of the model, in the order of their codes
CodeOrder ==
    <<" ", "-", "0", "1", "2", "3", "4", "5", "6", "7", "8", "9", ":", "T", "Y",
      "a", "d", "e", "r", "s", "t", "y">>

Code(c) == CHOOSE i \in 1..Len(CodeOrder) : CodeOrder[i] = c

\* a < b for two TEXT values (memcmp, then the shorter first)
TextLess(a, b) ==
    \E k \in 1..Len(b) :
       /\ \A j \in 1..k - 1 : j <= Len(a) /\ a[j] = b[j]
       /\ \/ k = Len(a) + 1
          \/ k <= Len(a) /\ Code(a[k]) < Code(b[k])

\* a < b for two values of the column p.date_posted: NULL sorts below every text
DateLess(a, b) == IF a = None THEN b # None ELSE b # None /\ TextLess(a[1], b[1])

\* ORDER BY p.date_posted DESC: the orders the rows can come in (rows with equal
\* dates in any order)
OrderByDateDesc(rows) ==
    LET n == Len(rows)
        perms == {f \in [1..n -> 1..n] : \A i, j \in 1..n : i # j => f[i] # f[j]}
        sorted(f) == \A i, j \in 1..n :
                        i < j => ~DateLess(rows[f[i]].date_posted, rows[f[j]].date_posted)
    IN {[i \in 1..n |-> rows[f[i]]] : f \in {g \in perms : sorted(g)}}

\* the lower case of the letters LIKE folds
Lower(c) ==
    IF c = "P" THEN "p" ELSE IF c = "B" THEN "b" ELSE IF c = "S" THEN "s" ELSE c

\* column LIKE '%text%': never true of NULL, and blind to the case of letters
Like(column, text) ==
    /\ column # None
    /\ \E k \in 0..Len(column[1]) - Len(text) :
          \A j \in 1..Len(text) : Lower(column[1][k + j]) = Lower(text[j])

\* FROM processed_reports p JOIN raw_reports r ON p.raw_report_id = r.id, with the
\* columns p.*, r.raw_content, r.username
JoinedRow(p) ==
    LET r == raw_reports[p.raw_report_id]
    IN [id |-> p.id, raw_report_id |-> p.raw_report_id, date_posted |-> p.date_posted,
        month |-> p.month, season |-> p.season,
        water_depth_feet |-> p.water_depth_feet, species_caught |-> p.species_caught,
        species_targeted |-> p.species_targeted, location |-> p.location,
        weather_conditions |-> p.weather_conditions,
        raw_content |-> r.raw_content, username |-> r.username]

\* the same with the column r.image_urls
JoinedRowWithImages(p) ==
    LET r == raw_reports[p.raw_report_id]
    IN [id |-> p.id, raw_report_id |-> p.raw_report_id, date_posted |-> p.date_posted,
        month |-> p.month, season |-> p.season,
        water_depth_feet |-> p.water_depth_feet, species_caught |-> p.species_caught,
        species_targeted |-> p.species_targeted, location |-> p.location,
        weather_conditions |-> p.weather_conditions,
        raw_content |-> r.raw_content, username |-> r.username,
        image_urls |-> r.image_urls]

\* get_all_processed_reports: the lists it can return
get_all_processed_reports ==
    OrderByDateDesc([i \in 1..Len(processed_reports) |->
                       JoinedRowWithImages(processed_reports[i])])

\* get_reports_by_month
get_reports_by_month(month) ==
    LET kept == SelectSeq(processed_reports, LAMBDA p : p.month = Some(month))
    IN OrderByDateDesc([i \in 1..Len(kept) |-> JoinedRow(kept[i])])

\* get_reports_by_species
get_reports_by_species(species) ==
    LET kept == SelectSeq(processed_reports, LAMBDA p : Like(p.species_caught, species))
    IN OrderByDateDesc([i \in 1..Len(kept) |-> JoinedRow(kept[i])])

\* class FishingReport: whether a row validates.  image_urls is Optional[str]
\* without a default: pydantic 2 requires the key, pydantic 1 fills in None; which
\* of the two is installed is not fixed by the repository (optional_required).
ValidReport(row, optional_required) ==
    "image_urls" \in DOMAIN row \/ ~optional_required

\* the FishingReport made of a row that validates
FishingReport(row) ==
    [id |-> row.id, raw_report_id |-> row.raw_report_id,
     date_posted |-> row.date_posted, month |-> row.month, season |-> row.season,
     water_depth_feet |-> row.water_depth_feet, species_caught |-> row.species_caught,
     species_targeted |-> row.species_targeted, location |-> row.location,
     weather_conditions |-> row.weather_conditions,
     raw_content |-> row.raw_content, username |-> row.username,
     image_urls |-> IF "image_urls" \in DOMAIN row THEN row.image_urls ELSE None]

\* the response is written: status and body
Respond(endpoint, params, status, body) ==
    /\ api' = [ApiIdle EXCEPT !.pc = "responded", !.endpoint = endpoint,
                             !.params = params, !.status = status, !.body = body]
    /\ UNCHANGED <<raw_reports, processed_reports, scr, run>>

\* response_model=list[FishingReport]: the rows a handler returned are validated;
\* a row that does not validate makes the response a 500
RespondReports(endpoint, params, rows, optional_required) ==
    IF \A i \in 1..Len(rows) : ValidReport(rows[i], optional_required)
       THEN Respond(endpoint, params, 200, [i \in 1..Len(rows) |-> FishingReport(rows[i])])
       ELSE Respond(endpoint, params, 500, <<>>)

\* reports[offset:offset + limit]
Slice(reports, offset, limit) ==
    SubSeq(reports, offset + 1, Min(offset + limit, Len(reports)))

\* GET /reports
get_reports(limit, offset, optional_required) ==
    /\ api.pc = "idle"
    /\ \E reports \in get_all_processed_reports :
          RespondReports("reports",
                         [NoParams EXCEPT !.limit = Some(limit), !.offset = Some(offset)],
                         Slice(reports, offset, limit), optional_required)

\* GET /reports/month/{month}
get_reports_for_month(month, optional_required) ==
    /\ api.pc = "idle"
    /\ LET params == [NoParams EXCEPT !.month = Some(month)]
       IN IF month < 1 \/ month > 12
             THEN Respond("month", params, 400, <<>>)
             ELSE \E reports \in get_reports_by_month(month) :
                     RespondReports("month", params, reports, optional_required)

\* GET /reports/species/{species}
get_reports_for_species(species, optional_required) ==
    /\ api.pc = "idle"
    /\ \E reports \in get_reports_by_species(species) :
          RespondReports("species", [NoParams EXCEPT !.species = Some(species)],
                         reports, optional_required)

\* the WHERE clause search_reports builds: a condition is added for a parameter
\* that is truthy
SearchKeeps(q, p) ==
    /\ TruthyInt(q.month) => p.month = q.month
    /\ TruthyStr(q.season) => p.season = q.season
    /\ TruthySeq(q.species) =>
          Like(p.species_caught, q.species[1]) \/ Like(p.species_targeted, q.species[1])
    /\ TruthySeq(q.location) => Like(p.location, q.location[1])
    /\ TruthySeq(q.weather) => Like(p.weather_conditions, q.weather[1])
    /\ TruthyInt(q.min_depth) =>
          p.water_depth_feet # None /\ p.water_depth_feet[1] >= q.min_depth[1]
    /\ TruthyInt(q.max_depth) =>
          p.water_depth_feet # None /\ p.water_depth_feet[1] <= q.max_depth[1]

\* GET /reports/search
search_reports(q, optional_required) ==
    /\ api.pc = "idle"
    /\ LET kept == SelectSeq(processed_reports, LAMBDA p : SearchKeeps(q, p))
           joined == [i \in 1..Len(kept) |-> JoinedRowWithImages(kept[i])]
       IN \E results \in OrderByDateDesc(joined) :
             RespondReports("search", q, Prefix(results, q.limit[1]), optional_required)

\* get_stats, its first SELECT: COUNT(*) of raw_reports
StatsCountRaw ==
    /\ api.pc = "idle"
    /\ api' = [ApiIdle EXCEPT !.pc = "stats", !.endpoint = "stats",
                             !.raw_count = Len(raw_reports)]
    /\ UNCHANGED <<raw_reports, processed_reports, scr, run>>

\* get_stats, its later SELECTs, and the response of GET /stats
StatsCountProcessed ==
    /\ api.pc = "stats"
    /\ api' = [api EXCEPT !.pc = "responded", !.status = 200,
                         !.processed_count = Len(processed_reports)]
    /\ UNCHANGED <<raw_reports, processed_reports, scr, run>>

\* the response has been sent
ApiDone ==
    /\ api.pc = "responded"
    /\ api' = ApiIdle
    /\ UNCHANGED <<raw_reports, processed_reports, scr, run>>

\* the scraper, seen from the store: one insert_raw_report of its for loop
ScraperStores(post) ==
    /\ api.pc \in {"idle", "stats"}
    /\ Len(raw_reports) < MaxRaw
    /\ raw_reports' = RawAfterInsert(raw_reports, post)
    /\ UNCHANGED <<processed_reports, scr, run, api>>

\* the extractor, seen from the store: one pass of its for loop for an unprocessed
\* report whose extraction gave an object
ExtractorStores(id, extracted) ==
    /\ api.pc \in {"idle", "stats"}
    /\ id \in 1..Len(raw_reports)
    /\ ~ProcessedConflict(processed_reports, id)
    /\ processed_reports' = PersistExtracted(processed_reports, raw_reports[id], extracted)
    /\ UNCHANGED <<raw_reports, scr, run, api>>

\* the parameters of the requests
PageLimits == {1, 2}

PageOffsets == {0, 1}

PathMonths == {-1, 0, 1, 3, 7, 12, 13}

PathSpecies == {pike, bass}

SearchDepths == {None, Some(0), Some(5)}

SearchQueries ==
    [month : {None, Some(7)}, season : {None, Some(""), Some("winter")},
     species : {None, Some(pike)}, location : {None, Some(Bay)},
     weather : {None, Some(<<"s", "u", "n">>)}, min_depth : SearchDepths,
     max_depth : SearchDepths, limit : {Some(n) : n \in PageLimits}, offset : {None}]

NextApi ==
    \/ \E post \in Posts : ScraperStores(post)
    \/ \E id \in 1..MaxRaw, extracted \in ApiObjects : ExtractorStores(id, extracted)
    \/ \E limit \in PageLimits, offset \in PageOffsets, optional_required \in BOOLEAN :
          get_reports(limit, offset, optional_required)
    \/ \E month \in PathMonths, optional_required \in BOOLEAN :
          get_reports_for_month(month, optional_required)
    \/ \E species \in PathSpecies, optional_required \in BOOLEAN :
          get_reports_for_species(species, optional_required)
    \/ \E q \in SearchQueries, optional_required \in BOOLEAN :
          search_reports(q, optional_required)
    \/ StatsCountRaw
    \/ StatsCountProcessed
    \/ ApiDone

InitApi ==
    /\ raw_reports = <<>>
    /\ processed_reports = <<>>
    /\ scr = ScrIdle
    /\ run = <<>>
    /\ api = ApiIdle

ApiSpec == InitApi /\ [][NextApi]_vars

(***************************************************************************)
(* The claims about the API.                                               *)
(***************************************************************************)

\* a response of the endpoint has been written
Responded(endpoint) == api.pc = "responded" /\ api.endpoint = endpoint

\* C15: GET /reports/month/{m} answers 400 for every m below 1 or above 12, and a
\* successful response for every m in 1..12, whatever the scraper and the
\* extractor have stored.
C15_MonthStatus ==
    Responded("month") =>
        IF api.params.month[1] \in 1..12 THEN api.status = 200 ELSE api.status = 400

\* the record is the processed row joined with its raw report
JoinedWithRaw(b) ==
    /\ \E i \in 1..Len(processed_reports) :
          LET p == processed_reports[i]
          IN /\ b.id = p.id /\ b.raw_report_id = p.raw_report_id
             /\ b.date_posted = p.date_posted
             /\ b.month = p.month /\ b.season = p.season
             /\ b.water_depth_feet = p.water_depth_feet
             /\ b.species_caught = p.species_caught
             /\ b.species_targeted = p.species_targeted
             /\ b.location = p.location
             /\ b.weather_conditions = p.weather_conditions
    /\ b.raw_report_id \in 1..Len(raw_reports)
    /\ LET r == raw_reports[b.raw_report_id]
       IN /\ b.raw_content = r.raw_content
          /\ b.username = r.username
          /\ b.image_urls = r.image_urls

\* C16: every record returned by list-all, by-month, by-species and search is the
\* processed record joined with its raw report: structured fields, raw_content,
\* username and image_urls.
C16_RecordsJoined ==
    (api.pc = "responded" /\ api.status = 200
       /\ api.endpoint \in {"reports", "month", "species", "search"}) =>
        \A i \in 1..Len(api.body) : JoinedWithRaw(api.body[i])

\* the record satisfies every filter the request supplied
SatisfiesSupplied(q, p) ==
    /\ q.month # None => p.month = q.month
    /\ q.season # None => p.season = q.season
    /\ q.species # None =>
          Like(p.species_caught, q.species[1]) \/ Like(p.species_targeted, q.species[1])
    /\ q.location # None => Like(p.location, q.location[1])
    /\ q.weather # None => Like(p.weather_conditions, q.weather[1])
    /\ q.min_depth # None =>
          p.water_depth_feet # None /\ p.water_depth_feet[1] >= q.min_depth[1]
    /\ q.max_depth # None =>
          p.water_depth_feet # None /\ p.water_depth_feet[1] <= q.max_depth[1]

\* C17: every record GET /reports/search returns satisfies every supplied filter
\* (the depth bounds 0 included), every processed record satisfying them is
\* returned unless cut by the limit, and at most limit records are returned.
C17_SearchHonoursFilters ==
    (Responded("search") /\ api.status = 200) =>
        LET q == api.params
            matching == SelectSeq(processed_reports, LAMBDA p : SatisfiesSupplied(q, p))
        IN /\ \A i \in 1..Len(api.body) : SatisfiesSupplied(q, api.body[i])
           /\ Len(api.body) <= q.limit[1]
           /\ Len(api.body) = Min(Len(matching), q.limit[1])

\* C18: every response of GET /stats reports processed_reports <= raw_reports,
\* also when the scraper and the extractor write while the request is served.
C18_StatsConsistent ==
    Responded("stats") => api.processed_count <= api.raw_count

====
